---------------------------- MODULE Spec2Model ----------------------------
(***************************************************************************)
(* cfddns: one periodic run discovers the host's IPv4 address and IPv6     *)
(* prefix, compares them with the persisted History, updates the A/AAAA    *)
(* records of every configured zone at the DNS provider and, when every    *)
(* zone succeeded, saves the new addresses as History.                     *)
(*                                                                         *)
(* The model follows src/src/main.rs and src/src/config.rs.  Every await   *)
(* on the provider is one action (the response arriving); the code         *)
(* between two awaits of a task runs inside the action of the response     *)
(* that resumes it, as on the current_thread runtime.                      *)
(***************************************************************************)
EXTENDS Integers, Sequences, FiniteSets, TLC

VARIABLES
    config,     \* Config: [a, aaaa: BOOLEAN, zones: Seq(ZoneConfig)]
    disk,       \* the file at history_path: [exists, bytes]
    run,        \* number of the current run of the process
    pc,         \* position of main: "start", "configured", "joining", "exit"
    history,    \* config.history, the History restored at startup
    observed,   \* [ipv4, ipv6_prefix] as discovered in this run
    new,        \* [ipv4, ipv6_prefix]: new_ipv4 / new_ipv6_prefix
    zone,       \* per zone index: the state of its update_zone future
    exit,       \* [code, cause, count] once main has returned
    io,         \* what this run did and found: [steps, discovered, saves, env]
    last        \* the previous run, when it saved History: [applied, observed]

vars == <<config, disk, run, pc, history, observed, new, zone, exit, io, last>>

-----------------------------------------------------------------------------
(* Bounds *)

\* number of consecutive runs of the process that are followed
MaxRuns == 2
\* stands for u32::MAX, the largest value of the page counter
MaxPage == 2
\* largest total_pages the provider reports
MaxTotalPages == 2
\* width of one half of an Ipv6Addr (64 in the program)
HalfBits == 2

-----------------------------------------------------------------------------
(* Option<T>: None is the empty sequence, Some(x) the sequence <<x>> *)

None == <<>>
Some(x) == <<x>>
IsNone(o) == o = <<>>
IsSome(o) == o # <<>>
Unwrap(o) == o[1]

RECURSIVE Pow2(_)
Pow2(n) == IF n = 0 THEN 1 ELSE 2 * Pow2(n - 1)

RECURSIVE BitAnd(_, _)
BitAnd(a, b) ==
    IF a = 0 \/ b = 0 THEN 0
    ELSE (a % 2) * (b % 2) + 2 * BitAnd(a \div 2, b \div 2)

RECURSIVE BitOr(_, _)
BitOr(a, b) ==
    IF a = 0 THEN b
    ELSE IF b = 0 THEN a
    ELSE (IF a % 2 = 1 \/ b % 2 = 1 THEN 1 ELSE 0) + 2 * BitOr(a \div 2, b \div 2)

\* An Ipv6Addr is <<upper half, lower half>>; & and | act on both halves
Ipv6And(x, y) == <<BitAnd(x[1], y[1]), BitAnd(x[2], y[2])>>
Ipv6Or(x, y) == <<BitOr(x[1], y[1]), BitOr(x[2], y[2])>>

\* ip.rs: the upper half all ones, the lower half zero
PREFIX_MASK == <<Pow2(HalfBits) - 1, 0>>

\* what address discovery can return: Ipv4Addr values (0 is UNSPECIFIED) ...
Ipv4Pool == {1, 2}
\* ... and the addresses an interface or the echo service reports for IPv6
Ipv6Pool == {<<1, 1>>, <<2, 3>>}

\* interface_ipv6_prefix / http_get_ipv6_prefix: the address masked
\* ipv6_prefix_of as it would be if the address were passed on whole
ipv6_prefix_unmasked(ip) == ip

ipv6_prefix_of(ip) == Ipv6And(ip, PREFIX_MASK)

-----------------------------------------------------------------------------
(* Configuration *)

\* RecordConfig: name and the optional suffix (eui64); ttl and proxied are
\* copied into the request unchanged and are left out
RecordConfig(name, suffix) == [name |-> name, suffix |-> suffix]

RecHost == RecordConfig("r1", Some(<<0, 1>>))
RecPlain == RecordConfig("r2", None)
\* a suffix that also sets a bit of the upper half
RecOdd == RecordConfig("r1", Some(<<1, 2>>))

\* ZoneConfig.records of the zones a configuration is built from
RecordLists == {<<>>, <<RecHost>>, <<RecHost, RecPlain>>, <<RecHost, RecHost>>, <<RecOdd>>}

\* The configurations a run may start with: which families are enabled
\* (a_interface/a_http, aaaa_interface/aaaa_http) and the zones, each zone
\* given by its records
Config(a, aaaa, zones) == [a |-> a, aaaa |-> aaaa, zones |-> zones]

Configs ==
    {Config(f[1], f[2], zs) :
        f \in {<<TRUE, TRUE>>, <<TRUE, FALSE>>, <<FALSE, FALSE>>},
        zs \in {<<>>} \cup {<<rs>> : rs \in RecordLists}}

\* configurations with two zones; these are followed from a first run on
TwoZoneConfigs ==
    {Config(TRUE, TRUE, <<<<RecHost, RecPlain>>, <<>>>>),
     Config(TRUE, FALSE, <<<<RecHost>>, <<RecPlain>>>>)}

Zones == 1..Len(config.zones)

-----------------------------------------------------------------------------
(* History and the history file *)

History(ipv4, ipv6_prefix) == [ipv4 |-> ipv4, ipv6_prefix |-> ipv6_prefix]

\* History::default()
HistoryDefault == History(None, None)

\* every address a file can hold: UNSPECIFIED and the discoverable ones
Ipv4Addrs == {0} \cup Ipv4Pool
Ipv6Addrs == (0..(Pow2(HalfBits) - 1)) \X (0..(Pow2(HalfBits) - 1))

\* Display of the addresses, as serde writes them; an Ipv6Addr compresses
\* a half of zero groups to "::"
Ipv4Text(ip) == ToString(ip)
Ipv6Text(ip) ==
    CASE ip[1] = 0 /\ ip[2] = 0 -> "::"
      [] ip[1] = 0 /\ ip[2] # 0 -> "::" \o ToString(ip[2])
      [] ip[1] # 0 /\ ip[2] = 0 -> ToString(ip[1]) \o "::"
      [] OTHER -> ToString(ip[1]) \o ":" \o ToString(ip[2])

\* serde_json's text of one Option<address>: null or the quoted address
\* the text of every address a file can hold
Ipv4Texts == [ip \in Ipv4Addrs |-> Ipv4Text(ip)]
Ipv6Texts == [ip \in Ipv6Addrs |-> Ipv6Text(ip)]

ToJson(o, Texts) == IF IsNone(o) THEN <<"null">> ELSE <<"quote", Texts[Unwrap(o)], "quote">>

\* the Option<address> read at position i: [ok, v, next]
FromJson(b, i, Texts) ==
    IF i <= Len(b) /\ b[i] = "null"
    THEN [ok |-> TRUE, v |-> None, next |-> i + 1]
    ELSE IF /\ i + 2 <= Len(b)
            /\ b[i] = "quote"
            /\ b[i + 2] = "quote"
            /\ \E a \in DOMAIN Texts : Texts[a] = b[i + 1]
    THEN [ok |-> TRUE, v |-> Some(CHOOSE a \in DOMAIN Texts : Texts[a] = b[i + 1]),
          next |-> i + 3]
    ELSE [ok |-> FALSE, v |-> None, next |-> i]

\* serde_json::to_writer(&history): the two fields in order
Json(h) == ToJson(h.ipv4, Ipv4Texts) \o ToJson(h.ipv6_prefix, Ipv6Texts)

\* the file: absent, or present with its bytes (empty right after truncate)
NoFile == [exists |-> FALSE, bytes |-> <<>>]
Truncated == [exists |-> TRUE, bytes |-> <<>>]

\* data written at the start of an open file; what lies behind it stays
Write(f, data) ==
    [exists |-> TRUE, bytes |-> data \o SubSeq(f.bytes, Len(data) + 1, Len(f.bytes))]

FileOf(h) == Write(Truncated, Json(h))

\* serde_json::from_reader::<History>: the two fields and nothing after them
ParseFields(b) ==
    LET a == FromJson(b, 1, Ipv4Texts)
        p == FromJson(b, a.next, Ipv6Texts)
    IN [ok |-> a.ok /\ p.ok /\ p.next = Len(b) + 1, history |-> History(a.v, p.v)]

Parses(f) == f.exists /\ ParseFields(f.bytes).ok
Parse(f) == ParseFields(f.bytes).history

\* save_history as it would be without .truncate(true)
save_history_no_truncate(f, h, outcome) ==
    CASE outcome = "ok" -> Write(f, Json(h))
      [] outcome = "open" -> f
      [] OTHER -> [exists |-> TRUE, bytes |-> f.bytes]

\* save_history(path, h) with the outcome of the file system: "ok", "open"
\* (open for writing failed, the file is untouched) and "write" (the file is
\* opened and truncated and the text does not reach it)
save_history(f, h, outcome) ==
    CASE outcome = "ok" -> Write(Truncated, Json(h))
      [] outcome = "open" -> f
      [] OTHER -> Truncated

SaveOutcomes == {"ok", "open", "write"}

\* whether save_history returns Ok: the text is written into the BufWriter,
\* which holds it whole, and reaches the file when the BufWriter is dropped
\* at the end of to_writer; Drop discards the error of a failed write, so
\* only the failed open is returned
save_ok(outcome) == outcome # "open"

\* restore_history as it would be if a file that does not deserialize were
\* taken for the empty History
restore_history_lenient(f, outcome) ==
    IF f.exists
    THEN [ok |-> TRUE, history |-> IF Parses(f) THEN Parse(f) ELSE HistoryDefault,
          file |-> f, cause |-> "none"]
    ELSE [ok |-> save_ok(outcome), history |-> HistoryDefault,
          file |-> save_history(f, HistoryDefault, outcome),
          cause |-> IF save_ok(outcome) THEN "none" ELSE "history_create"]

\* restore_history(path): [ok, history, file, cause]
restore_history(f, outcome) ==
    IF f.exists
    THEN IF Parses(f)
         THEN [ok |-> TRUE, history |-> Parse(f), file |-> f, cause |-> "none"]
         ELSE [ok |-> FALSE, history |-> HistoryDefault, file |-> f,
               cause |-> "history_deserialize"]
    ELSE [ok |-> save_ok(outcome), history |-> HistoryDefault,
          file |-> save_history(f, HistoryDefault, outcome),
          cause |-> IF save_ok(outcome) THEN "none" ELSE "history_create"]

-----------------------------------------------------------------------------
(* The provider's answers *)

\* one record of a ListDnsRecords result
Rec(name, type, id) == [name |-> name, type |-> type, id |-> id]

\* response.result of one page: the records in the order returned
PageResults ==
    { <<>>,
      <<Rec("r1", "A", "a1"), Rec("r1", "AAAA", "q1")>>,
      <<Rec("r2", "A", "a2"), Rec("r2", "AAAA", "q2")>>,
      <<Rec("r1", "A", "a3"), Rec("r1", "TXT", "t1")>> }

\* response.result_info: absent, not a PageInfo, or PageInfo.total_pages
PageInfos ==
    {[kind |-> "absent", total_pages |-> 0], [kind |-> "malformed", total_pages |-> 0]}
    \cup {[kind |-> "info", total_pages |-> n] : n \in 0..MaxTotalPages}

\* the answers to a ListDnsRecords request; ok = FALSE is a failed request
ListResponses ==
    {[ok |-> FALSE, result |-> <<>>, result_info |-> [kind |-> "absent", total_pages |-> 0]]}
    \cup {[ok |-> TRUE, result |-> r, result_info |-> i] : r \in PageResults, i \in PageInfos}

\* the answers to a ListZones request: failed, or the number of zones matching
ZoneResponses == {[ok |-> FALSE, matches |-> 0]} \cup {[ok |-> TRUE, matches |-> n] : n \in 0..2}

-----------------------------------------------------------------------------
(* update_zone *)

EmptyMap == [n \in {} |-> "none"]

\* Extend as it would be without the filter on the record type
RECURSIVE ExtendAnyType(_, _, _)
ExtendAnyType(map, result, type) ==
    IF result = <<>> THEN map
    ELSE LET r == Head(result)
         IN ExtendAnyType([n \in DOMAIN map \cup {r.name} |->
                              IF n = r.name THEN r.id ELSE map[n]],
                          Tail(result), type)

\* HashMap::extend with the (name, id) of the records of one type, in order:
\* a later record of the same name replaces an earlier one
RECURSIVE Extend(_, _, _)
Extend(map, result, type) ==
    IF result = <<>> THEN map
    ELSE LET r == Head(result)
             m == IF r.type = type
                  THEN [n \in DOMAIN map \cup {r.name} |->
                            IF n = r.name THEN r.id ELSE map[n]]
                  ELSE map
         IN Extend(m, Tail(result), type)

\* an UpdateDnsRecord request and what became of it
Update(z, id, type, name, content) ==
    [zone |-> z, id |-> id, type |-> type, name |-> name, content |-> content,
     st |-> "planned", sent |-> 0]

\* PlanA as it would be if a missing A record were logged but not counted
PlanAIgnoresMissing(z, rc, a, ipv4) ==
    IF IsSome(ipv4) /\ rc.name \in DOMAIN a
    THEN <<<<Update(z, a[rc.name], "A", rc.name, Unwrap(ipv4))>>, 0>>
    ELSE <<<<>>, 0>>

\* the A branch of the loop body: <<requests pushed, errors added>>
PlanA(z, rc, a, ipv4) ==
    IF IsSome(ipv4)
    THEN IF rc.name \in DOMAIN a
         THEN <<<<Update(z, a[rc.name], "A", rc.name, Unwrap(ipv4))>>, 0>>
         ELSE <<<<>>, 1>>
    ELSE <<<<>>, 0>>

\* PlanAAAA as it would be if the suffix were cut to its lower half first
PlanAAAAMasksSuffix(z, rc, aaaa, ipv6_prefix) ==
    IF IsSome(ipv6_prefix) /\ IsSome(rc.suffix)
    THEN IF rc.name \in DOMAIN aaaa
         THEN <<<<Update(z, aaaa[rc.name], "AAAA", rc.name,
                         Ipv6Or(Unwrap(ipv6_prefix),
                                Ipv6And(Unwrap(rc.suffix), <<0, Pow2(HalfBits) - 1>>)))>>, 0>>
         ELSE <<<<>>, 1>>
    ELSE <<<<>>, 0>>

\* PlanAAAA as it would be if a record without suffix took the zero suffix
PlanAAAADefaultSuffix(z, rc, aaaa, ipv6_prefix) ==
    IF IsSome(ipv6_prefix)
    THEN IF rc.name \in DOMAIN aaaa
         THEN <<<<Update(z, aaaa[rc.name], "AAAA", rc.name,
                         Ipv6Or(Unwrap(ipv6_prefix),
                                IF IsSome(rc.suffix) THEN Unwrap(rc.suffix) ELSE <<0, 0>>))>>, 0>>
         ELSE <<<<>>, 1>>
    ELSE <<<<>>, 0>>

\* the AAAA branch of the loop body
PlanAAAA(z, rc, aaaa, ipv6_prefix) ==
    IF IsSome(ipv6_prefix) /\ IsSome(rc.suffix)
    THEN IF rc.name \in DOMAIN aaaa
         THEN <<<<Update(z, aaaa[rc.name], "AAAA", rc.name,
                         Ipv6Or(Unwrap(ipv6_prefix), Unwrap(rc.suffix)))>>, 0>>
         ELSE <<<<>>, 1>>
    ELSE <<<<>>, 0>>

\* Plan as it would be if a missing record ended the loop
RECURSIVE PlanStopsAtMissing(_, _, _, _, _, _)
PlanStopsAtMissing(z, records, a, aaaa, ipv4, ipv6_prefix) ==
    IF records = <<>> THEN [updates |-> <<>>, errors |-> 0]
    ELSE LET pa == PlanA(z, Head(records), a, ipv4)
             pq == PlanAAAA(z, Head(records), aaaa, ipv6_prefix)
             rest == IF pa[2] + pq[2] > 0
                     THEN [updates |-> <<>>, errors |-> 0]
                     ELSE PlanStopsAtMissing(z, Tail(records), a, aaaa, ipv4, ipv6_prefix)
         IN [updates |-> pa[1] \o pq[1] \o rest.updates,
             errors |-> pa[2] + pq[2] + rest.errors]

\* for record_config in &config.records: records_to_update and errors
RECURSIVE Plan(_, _, _, _, _, _)
Plan(z, records, a, aaaa, ipv4, ipv6_prefix) ==
    IF records = <<>> THEN [updates |-> <<>>, errors |-> 0]
    ELSE LET pa == PlanA(z, Head(records), a, ipv4)
             pq == PlanAAAA(z, Head(records), aaaa, ipv6_prefix)
             rest == Plan(z, Tail(records), a, aaaa, ipv4, ipv6_prefix)
         IN [updates |-> pa[1] \o pq[1] \o rest.updates,
             errors |-> pa[2] + pq[2] + rest.errors]

\* api_client.request(endpoint) for every planned update, handed to join_all
Dispatch(updates) ==
    [i \in DOMAIN updates |-> [updates[i] EXCEPT !.st = "pending", !.sent = @ + 1]]

\* the errors counted from the results of join_all
FailedUpdates(updates) == Cardinality({i \in DOMAIN updates : updates[i].st = "err"})

\* the value update_zone returns for its error counter
ZoneResult(errors) == IF errors > 0 THEN "failures" ELSE "ok"

\* no response of zone_record_map is held (before its loop, after an error)
NoInfo == [kind |-> "none", total_pages |-> 0]

\* the future of update_zone before its first poll
ZoneIdle ==
    [pc |-> "idle", res |-> "none", page |-> 0, a |-> EmptyMap, aaaa |-> EmptyMap,
     errors |-> 0, updates |-> <<>>, lookups |-> 0, listed |-> <<>>,
     info |-> NoInfo, matches |-> 0, seen |-> {}]

\* update_zone returns: Ok(()) or the error; info stays the result_info on
\* which zone_record_map returned its maps
ZoneDone(zs, res) ==
    [zs EXCEPT !.pc = "done", !.res = res, !.page = 0,
               !.info = IF res \in {"ok", "failures"} THEN @ ELSE NoInfo]

\* ZoneStart as it would be without the return for an empty record list
ZoneStartAlwaysLooksUp(z) ==
    /\ pc = "joining"
    /\ zone[z].pc = "idle"
    /\ zone' = [zone EXCEPT ![z] = [@ EXCEPT !.pc = "zone_id", !.lookups = @ + 1]]
    /\ UNCHANGED <<config, disk, run, pc, history, observed, new, exit, io, last>>

\* update_zone up to its first await: the empty-records return, else ListZones
ZoneStart(z) ==
    /\ pc = "joining"
    /\ zone[z].pc = "idle"
    /\ zone' = [zone EXCEPT ![z] =
                   IF config.zones[z] = <<>>
                   THEN ZoneDone(@, "ok")
                   ELSE [@ EXCEPT !.pc = "zone_id", !.lookups = @ + 1]]
    /\ UNCHANGED <<config, disk, run, pc, history, observed, new, exit, io, last>>

\* zone_id as it would be if it took the first of several matching zones
zone_id_first(resp) ==
    IF ~resp.ok THEN "list_zones_failed"
    ELSE IF resp.matches = 0 THEN "no_zones"
    ELSE "ok"

\* zone_id on the ListZones response: "ok" for an identifier, else the error
zone_id(resp) ==
    IF ~resp.ok THEN "list_zones_failed"
    ELSE IF resp.matches > 1 THEN "multiple_zones"
    ELSE IF resp.matches = 0 THEN "no_zones"
    ELSE "ok"

\* update_zone resumes with the ListZones response; when zone_id returned an
\* identifier zone_record_map starts and requests page 1
ZoneIdResponse(z) ==
    /\ pc = "joining"
    /\ zone[z].pc = "zone_id"
    /\ \E resp \in ZoneResponses :
          zone' = [zone EXCEPT ![z] =
              LET got == [@ EXCEPT !.matches = resp.matches]
              IN IF zone_id(resp) = "ok"
                 THEN [got EXCEPT !.pc = "list", !.page = 1, !.listed = <<1>>]
                 ELSE ZoneDone(got, zone_id(resp))]
    /\ UNCHANGED <<config, disk, run, pc, history, observed, new, exit, io, last>>

\* PlanAndDispatch as it would be if a missing record made update_zone return
\* before its requests are created
PlanAndDispatchBailsOnMissing(z, zs) ==
    LET plan == Plan(z, config.zones[z], zs.a, zs.aaaa, new.ipv4, new.ipv6_prefix)
        planned == [zs EXCEPT !.errors = plan.errors, !.updates = Dispatch(plan.updates)]
    IN IF plan.errors > 0
       THEN ZoneDone([zs EXCEPT !.errors = plan.errors], "failures")
       ELSE IF plan.updates = <<>>
       THEN ZoneDone(planned, ZoneResult(plan.errors))
       ELSE [planned EXCEPT !.pc = "update", !.page = 0]

\* the rest of update_zone once zone_record_map has returned the maps:
\* planning, dispatch of the requests, and the return when there are none
PlanAndDispatch(z, zs) ==
    LET plan == Plan(z, config.zones[z], zs.a, zs.aaaa, new.ipv4, new.ipv6_prefix)
        planned == [zs EXCEPT !.errors = plan.errors, !.updates = Dispatch(plan.updates)]
    IN IF plan.updates = <<>>
       THEN ZoneDone(planned, ZoneResult(plan.errors))
       ELSE [planned EXCEPT !.pc = "update", !.page = 0]

\* one iteration of the loop of zone_record_map after its response arrived
ListStep(z, zs, resp) ==
    IF ~resp.ok THEN ZoneDone(zs, "list_records_failed")
    ELSE LET got == [zs EXCEPT !.a = Extend(@, resp.result, "A"),
                               !.aaaa = Extend(@, resp.result, "AAAA"),
                               !.info = resp.result_info,
                               !.seen = @ \cup {resp.result[i] : i \in DOMAIN resp.result}]
         IN CASE resp.result_info.kind = "absent" -> PlanAndDispatch(z, got)
              [] resp.result_info.kind = "malformed" -> ZoneDone(got, "bad_page_info")
              [] OTHER ->
                    IF resp.result_info.total_pages = zs.page
                    THEN PlanAndDispatch(z, got)
                    ELSE IF zs.page = MaxPage
                         THEN ZoneDone(got, "page_wrapped")
                         ELSE [got EXCEPT !.page = @ + 1,
                                          !.listed = Append(@, zs.page + 1)]

ListResponse(z) ==
    /\ pc = "joining"
    /\ zone[z].pc = "list"
    /\ \E resp \in ListResponses :
          zone' = [zone EXCEPT ![z] = ListStep(z, @, resp)]
    /\ UNCHANGED <<config, disk, run, pc, history, observed, new, exit, io, last>>

\* UpdateStep as it would be with try_join_all: the first failed update
\* makes update_zone return and drops the requests still pending
UpdateStepFailFast(zs, i, ok) ==
    LET upd == [zs.updates EXCEPT ![i].st = IF ok THEN "ok" ELSE "err"]
        all == \A j \in DOMAIN upd : upd[j].st # "pending"
        errors == zs.errors + FailedUpdates(upd)
    IN IF all \/ ~ok
       THEN [zs EXCEPT !.updates = upd, !.errors = errors, !.pc = "done",
                       !.res = IF errors > 0 THEN "failures" ELSE "ok"]
       ELSE [zs EXCEPT !.updates = upd]

\* join_all over the update requests: one response arrives; with the last
\* one join_all returns, the failures are counted and update_zone returns
UpdateStep(zs, i, ok) ==
    LET upd == [zs.updates EXCEPT ![i].st = IF ok THEN "ok" ELSE "err"]
        all == \A j \in DOMAIN upd : upd[j].st # "pending"
        errors == zs.errors + FailedUpdates(upd)
    IN IF all
       THEN ZoneDone([zs EXCEPT !.updates = upd, !.errors = errors], ZoneResult(errors))
       ELSE [zs EXCEPT !.updates = upd]

UpdateResponse(z) ==
    /\ pc = "joining"
    /\ zone[z].pc = "update"
    /\ \E i \in DOMAIN zone[z].updates, ok \in BOOLEAN :
          /\ zone[z].updates[i].st = "pending"
          /\ zone' = [zone EXCEPT ![z] = UpdateStep(@, i, ok)]
    /\ UNCHANGED <<config, disk, run, pc, history, observed, new, exit, io, last>>

-----------------------------------------------------------------------------
(* main *)

Pair(ipv4, ipv6_prefix) == [ipv4 |-> ipv4, ipv6_prefix |-> ipv6_prefix]

NotExited == [code |-> 0, cause |-> "running", count |-> 0]
Exit(code, cause, count) == [code |-> code, cause |-> cause, count |-> count]

IoNone ==
    [steps |-> <<>>, discovered |-> FALSE, saves |-> 0,
     env |-> [config |-> TRUE, credential |-> TRUE, history |-> TRUE]]

\* ChangeGate as it would be if the changed arm returned the previous value
ChangeGateKeepsPrev(obs, prev) ==
    IF IsNone(obs) THEN None
    ELSE IF IsNone(prev) THEN obs
    ELSE IF Unwrap(obs) = Unwrap(prev) THEN None
    ELSE prev

\* the match of main on (observed, history) of one family
ChangeGate(obs, prev) ==
    IF IsNone(obs) THEN None
    ELSE IF IsNone(prev) THEN obs
    ELSE IF Unwrap(obs) = Unwrap(prev) THEN None
    ELSE obs

\* what the three steps of startup would do: the configuration file reads and
\* parses, the token is set, restore_history(f) returns Ok
StartupEnv(cfgOk, tokenOk, f, fs) ==
    [config |-> cfgOk, credential |-> tokenOk,
     history |-> ~(f.exists /\ fs = "open") /\ restore_history(f, fs).ok]

\* from_args_os as it would be if the History were restored before the token
\* is read
from_args_os_history_first(cfgOk, tokenOk, f, fs) ==
    LET r == restore_history(f, fs)
        openFails == f.exists /\ fs = "open"
        created == IF f.exists THEN <<>> ELSE <<"create">>
    IN IF ~cfgOk
       THEN [ok |-> FALSE, cause |-> "config", steps |-> <<"config">>,
             file |-> f, history |-> HistoryDefault]
       ELSE IF openFails
       THEN [ok |-> FALSE, cause |-> "history_open", steps |-> <<"config", "history">>,
             file |-> f, history |-> HistoryDefault]
       ELSE IF ~r.ok
       THEN [ok |-> FALSE, cause |-> r.cause,
             steps |-> <<"config", "history">> \o created,
             file |-> r.file, history |-> r.history]
       ELSE IF ~tokenOk
       THEN [ok |-> FALSE, cause |-> "credential",
             steps |-> <<"config", "history">> \o created \o <<"credential">>,
             file |-> r.file, history |-> r.history]
       ELSE [ok |-> TRUE, cause |-> "none",
             steps |-> <<"config", "history">> \o created \o <<"credential">>,
             file |-> r.file, history |-> r.history]

\* Config::from_args_os: the configuration file, the token, the History, each
\* with `?`; [ok, cause, steps, file, history], steps being the steps taken
from_args_os(cfgOk, tokenOk, f, fs) ==
    LET r == restore_history(f, fs)
        openFails == f.exists /\ fs = "open"
    IN IF ~cfgOk
       THEN [ok |-> FALSE, cause |-> "config", steps |-> <<"config">>,
             file |-> f, history |-> HistoryDefault]
       ELSE IF ~tokenOk
       THEN [ok |-> FALSE, cause |-> "credential", steps |-> <<"config", "credential">>,
             file |-> f, history |-> HistoryDefault]
       ELSE IF openFails
       THEN [ok |-> FALSE, cause |-> "history_open",
             steps |-> <<"config", "credential", "history">>,
             file |-> f, history |-> HistoryDefault]
       ELSE [ok |-> r.ok, cause |-> r.cause,
             steps |-> <<"config", "credential", "history">>
                       \o (IF f.exists THEN <<>> ELSE <<"create">>),
             file |-> r.file, history |-> r.history]

\* main's call of Config::from_args_os()?
Startup ==
    /\ pc = "start"
    /\ \E cfgOk \in BOOLEAN, tokenOk \in BOOLEAN, fs \in SaveOutcomes :
          LET c == from_args_os(cfgOk, tokenOk, disk, fs)
          IN /\ io' = [io EXCEPT !.steps = c.steps,
                                 !.env = StartupEnv(cfgOk, tokenOk, disk, fs)]
             /\ disk' = c.file
             /\ history' = c.history
             /\ pc' = IF c.ok THEN "configured" ELSE "exit"
             /\ exit' = IF c.ok THEN exit ELSE Exit(1, c.cause, 0)
    /\ UNCHANGED <<config, run, observed, new, zone, last>>

\* NothingChanged as it would be without the return for an unchanged pair
NothingChangedNever(new_ipv4, new_ipv6_prefix) == FALSE

\* if new_ipv4.is_none() && new_ipv6_prefix.is_none() { return Ok(()) }
NothingChanged(new_ipv4, new_ipv6_prefix) == IsNone(new_ipv4) /\ IsNone(new_ipv6_prefix)

\* what discovery of one family yields: None when the family is not
\* configured, else one of the addresses
DiscoverIpv4 == IF config.a THEN {Some(ip) : ip \in Ipv4Pool} ELSE {None}
DiscoverIpv6Prefix ==
    IF config.aaaa THEN {Some(ipv6_prefix_of(ip)) : ip \in Ipv6Pool} ELSE {None}

\* main from the zones check to the creation of the update_zone futures;
\* failed: interface_ipv4, http_get_ipv4 or their IPv6 counterparts failed
Discover ==
    /\ pc = "configured"
    /\ IF config.zones = <<>>
       THEN /\ pc' = "exit"
            /\ exit' = Exit(0, "no_zones", 0)
            /\ UNCHANGED <<observed, new, io>>
       ELSE \E ipv4 \in DiscoverIpv4, ipv6_prefix \in DiscoverIpv6Prefix,
               failed \in {f \in BOOLEAN : f => (config.a \/ config.aaaa)} :
              IF failed
              THEN /\ pc' = "exit"
                   /\ exit' = Exit(1, "discovery", 0)
                   /\ io' = [io EXCEPT !.discovered = TRUE]
                   /\ UNCHANGED <<observed, new>>
              ELSE LET new_ipv4 == ChangeGate(ipv4, history.ipv4)
                       new_ipv6_prefix == ChangeGate(ipv6_prefix, history.ipv6_prefix)
                   IN /\ observed' = Pair(ipv4, ipv6_prefix)
                      /\ io' = [io EXCEPT !.discovered = config.a \/ config.aaaa]
                      /\ IF IsNone(ipv4) /\ IsNone(ipv6_prefix)
                         THEN /\ pc' = "exit"
                              /\ exit' = Exit(0, "disabled", 0)
                              /\ new' = new
                         ELSE /\ new' = Pair(new_ipv4, new_ipv6_prefix)
                              /\ IF NothingChanged(new_ipv4, new_ipv6_prefix)
                                 THEN /\ pc' = "exit"
                                      /\ exit' = Exit(0, "unchanged", 0)
                                 ELSE /\ pc' = "joining"
                                      /\ exit' = exit
    /\ UNCHANGED <<config, disk, run, history, zone, last>>

\* FailedZones as it would be if main failed only when no zone succeeded
FailedZonesWhenAllFail ==
    IF \A z \in Zones : zone[z].res # "ok" THEN Cardinality(Zones) ELSE 0

\* the errors counted from the results of the zones' join_all
FailedZones == Cardinality({z \in Zones : zone[z].res # "ok"})

\* JoinAllReady as it would be with try_join_all: also once a zone has failed
JoinAllFailFast ==
    \/ \A z \in Zones : zone[z].pc = "done"
    \/ \E z \in Zones : zone[z].pc = "done" /\ zone[z].res # "ok"

\* join_all(zone_updates) returns once every future has returned
JoinAllReady == \A z \in Zones : zone[z].pc = "done"

\* main after join_all has returned: the zone failures, then save_history
Finish ==
    /\ pc = "joining"
    /\ JoinAllReady
    /\ pc' = "exit"
    /\ IF FailedZones > 0
       THEN /\ exit' = Exit(1, "zones", FailedZones)
            /\ UNCHANGED <<disk, io>>
       ELSE \E fs \in SaveOutcomes :
              /\ disk' = save_history(disk, History(new.ipv4, new.ipv6_prefix), fs)
              /\ io' = [io EXCEPT !.saves = @ + 1]
              /\ exit' = IF save_ok(fs) THEN Exit(0, "saved", 0)
                                         ELSE Exit(1, "history_save", 0)
    /\ UNCHANGED <<config, run, history, observed, new, zone, last>>

\* the process has exited; the timer starts it again
NextRun ==
    /\ pc = "exit"
    /\ run < MaxRuns
    /\ run' = run + 1
    /\ pc' = "start"
    /\ last' = IF exit.cause = "saved"
               THEN [applied |-> TRUE, observed |-> observed]
               ELSE [applied |-> FALSE, observed |-> Pair(None, None)]
    /\ history' = HistoryDefault
    /\ observed' = Pair(None, None)
    /\ new' = Pair(None, None)
    /\ zone' = [z \in Zones |-> ZoneIdle]
    /\ exit' = NotExited
    /\ io' = IoNone
    /\ UNCHANGED <<config, disk>>

-----------------------------------------------------------------------------
(* The specification *)

\* the Histories a run can have left in the file
Histories ==
    {History(a, p) : a \in {None} \cup {Some(ip) : ip \in Ipv4Pool},
                     p \in {None} \cup {Some(ipv6_prefix_of(ip)) : ip \in Ipv6Pool}}

Init ==
    /\ \/ /\ config \in Configs
          /\ disk \in {NoFile} \cup {FileOf(h) : h \in Histories}
       \/ /\ config \in TwoZoneConfigs
          /\ disk = NoFile
    /\ run = 1
    /\ pc = "start"
    /\ history = HistoryDefault
    /\ observed = Pair(None, None)
    /\ new = Pair(None, None)
    /\ zone = [z \in Zones |-> ZoneIdle]
    /\ exit = NotExited
    /\ io = IoNone
    /\ last = [applied |-> FALSE, observed |-> Pair(None, None)]

Next ==
    \/ Startup
    \/ Discover
    \/ \E z \in Zones : ZoneStart(z)
    \/ \E z \in Zones : ZoneIdResponse(z)
    \/ \E z \in Zones : ListResponse(z)
    \/ \E z \in Zones : UpdateResponse(z)
    \/ Finish
    \/ NextRun

Spec == Init /\ [][Next]_vars

-----------------------------------------------------------------------------
(* The history file on its own: save_history and restore_history called in
   turn on one path, as tests::save_restore_history does *)

\* the saves of one test
MaxSaves == 2

\* every History: each field None or any address, UNSPECIFIED included
AllHistories ==
    {History(a, p) : a \in {None} \cup {Some(ip) : ip \in Ipv4Addrs},
                     p \in {None} \cup {Some(ip) : ip \in Ipv6Addrs}}

\* a file longer than any History text
Garbage ==
    [exists |-> TRUE,
     bytes |-> Json(History(Some(0), Some(<<0, 0>>))) \o <<"null", "quote">>]

\* what the path can hold before the first save
PriorFiles == {NoFile, Truncated, Garbage} \cup {FileOf(h) : h \in AllHistories}

\* save_history(&hist_file_path, h).unwrap(); new is the History handed in,
\* io.steps the outcomes of the file system so far
TestSave ==
    /\ pc \in {"test", "restored"}
    /\ io.saves < MaxSaves
    /\ \E h \in AllHistories, fs \in SaveOutcomes :
          /\ disk' = save_history(disk, h, fs)
          /\ new' = h
          /\ io' = [io EXCEPT !.saves = @ + 1, !.steps = Append(@, fs)]
          /\ pc' = IF save_ok(fs) THEN "saved" ELSE "exit"
          /\ exit' = IF save_ok(fs) THEN exit ELSE Exit(1, "history_save", 0)
    /\ UNCHANGED <<config, run, history, observed, zone, last>>

\* let restored = restore_history(&hist_file_path).unwrap()
TestRestore ==
    /\ pc = "saved"
    /\ LET r == restore_history(disk, "ok")
       IN /\ disk' = r.file
          /\ history' = r.history
          /\ pc' = IF r.ok THEN "restored" ELSE "exit"
          /\ exit' = IF r.ok THEN exit ELSE Exit(1, r.cause, 0)
    /\ UNCHANGED <<config, run, observed, new, zone, io, last>>

InitHistory ==
    /\ config = Config(FALSE, FALSE, <<>>)
    /\ disk \in PriorFiles
    /\ run = 1
    /\ pc = "test"
    /\ history = HistoryDefault
    /\ observed = Pair(None, None)
    /\ new = Pair(None, None)
    /\ zone = [z \in Zones |-> ZoneIdle]
    /\ exit = NotExited
    /\ io = IoNone
    /\ last = [applied |-> FALSE, observed |-> Pair(None, None)]

NextHistory ==
    \/ TestSave
    \/ TestRestore

SpecHistory == InitHistory /\ [][NextHistory]_vars

-----------------------------------------------------------------------------
(* Properties *)

Families == {"ipv4", "ipv6_prefix"}

\* requests sent to the provider for zone z in this run
Requests(z) == zone[z].lookups + Len(zone[z].listed) + Len(zone[z].updates)

ZoneFailed(z) == zone[z].pc = "done" /\ zone[z].res # "ok"

\* the file is as startup left it: it holds the History that was loaded, or
\* it is the file startup created and whose text did not reach it
AsLoaded ==
    \/ disk = FileOf(history)
    \/ disk = Truncated /\ history = HistoryDefault

\* C1: save_history is invoked after startup only when every zone returned
\* success; from the moment a zone has failed to the exit of the run the
\* history file holds the History that was loaded at startup.
C1_PersistenceGate ==
    /\ io.saves > 0 => \A z \in Zones : zone[z].pc = "done" /\ zone[z].res = "ok"
    /\ (\E z \in Zones : ZoneFailed(z)) =>
          /\ io.saves = 0
          /\ AsLoaded

\* a run has exited on a failed zone although an update of it succeeded remotely
C1_Witness ==
    /\ pc = "exit"
    /\ exit.cause = "zones"
    /\ \E z \in Zones : \E i \in DOMAIN zone[z].updates :
          /\ ZoneFailed(z)
          /\ zone[z].updates[i].st = "ok"
          /\ zone[z].updates[i].type = "A"
          /\ Some(zone[z].updates[i].content) # history.ipv4

\* C2: after a run in which every zone succeeded, the history file holds for
\* each family the value last applied (the family's earlier value when it was
\* unchanged or disabled in that run), and the next run that observes the same
\* pair leaves through the no-update return without a request.
C2_HistoryIsLastApplied ==
    /\ (pc = "exit" /\ exit.cause = "saved" /\ Parses(disk)) =>
          \A f \in Families :
              Parse(disk)[f] = IF IsSome(new[f]) THEN new[f] ELSE history[f]
    /\ (last.applied /\ observed = last.observed) =>
          /\ pc = "exit"
          /\ exit.cause = "unchanged"
          /\ \A z \in Zones : Requests(z) = 0

\* C3: per family the new value is absent iff the observed value is absent or
\* equals the historical one; otherwise it is the observed value, and never
\* the historical value.
C3_ChangeGate ==
    \A f \in Families :
        /\ IsNone(new[f]) <=> (IsNone(observed[f]) \/ observed[f] = history[f])
        /\ IsSome(new[f]) => new[f] = observed[f] /\ new[f] # history[f]

\* the gate has let a changed IPv4 through and held an unchanged prefix back
C3_Witness ==
    /\ pc = "joining"
    /\ IsSome(history.ipv4)
    /\ IsSome(new.ipv4)
    /\ IsSome(observed.ipv6_prefix)
    /\ IsNone(new.ipv6_prefix)

\* startup has succeeded and discovery, where it ran, has not failed
Started ==
    /\ pc \in {"joining", "exit"}
    /\ exit.cause \notin {"config", "credential", "history_open",
                          "history_deserialize", "history_create", "discovery"}

\* no zone configured, both families disabled, or nothing changed
NothingToDo ==
    \/ config.zones = <<>>
    \/ ~config.a /\ ~config.aaaa
    \/ \A f \in Families : IsNone(observed[f]) \/ observed[f] = history[f]

\* C4: a run with nothing to do exits with code 0 and has sent no zone lookup,
\* no record listing and no update and has not written the history file after
\* startup; without zones it has not discovered the addresses either.
C4_BenignEarlyReturn ==
    (Started /\ NothingToDo) =>
        /\ pc = "exit"
        /\ exit.code = 0
        /\ \A z \in Zones : Requests(z) = 0
        /\ io.saves = 0
        /\ AsLoaded
        /\ config.zones = <<>> => ~io.discovered

\* a run with zones and a known, unchanged address has returned early
C4_Witness ==
    /\ pc = "exit"
    /\ exit.cause = "unchanged"
    /\ config.zones # <<>>
    /\ IsSome(observed.ipv4)
    /\ observed.ipv4 = history.ipv4

\* C5: every planned update of a zone is sent exactly once and completes
\* whatever its siblings did; update_zone returns only when none is pending,
\* and the failures it then reports beyond the missing records are exactly
\* the failed updates.
C5_AllUpdatesRun ==
    \A z \in Zones :
        LET zs == zone[z]
            plan == Plan(z, config.zones[z], zs.a, zs.aaaa, new.ipv4, new.ipv6_prefix)
        IN /\ \A i \in DOMAIN zs.updates : zs.updates[i].sent = 1
           /\ zs.pc = "update" => \E i \in DOMAIN zs.updates : zs.updates[i].st = "pending"
           /\ (zs.pc = "done" /\ zs.res \in {"ok", "failures"}) =>
                 /\ Len(zs.updates) = Len(plan.updates)
                 /\ \A i \in DOMAIN zs.updates : zs.updates[i].st \in {"ok", "err"}
                 /\ zs.errors - plan.errors = FailedUpdates(zs.updates)

\* three updates of one zone: one failed, two succeeded, one failure reported
C5_Witness ==
    \E z \in Zones :
        /\ zone[z].pc = "done"
        /\ Len(zone[z].updates) = 3
        /\ zone[z].updates[1].st = "err"
        /\ zone[z].updates[2].st = "ok"
        /\ zone[z].updates[3].st = "ok"
        /\ zone[z].errors = 1
        /\ zone[z].res = "failures"

\* C6: main goes past join_all only when every zone has returned, each zone
\* with records having been attempted; the zone failure it reports counts the
\* failed zones, and the history file is written only then.
C6_AllZonesJoin ==
    (pc = "exit" /\ exit.cause \in {"zones", "saved", "history_save"}) =>
        /\ \A z \in Zones :
              /\ zone[z].pc = "done"
              /\ config.zones[z] # <<>> => zone[z].lookups = 1
              /\ \A i \in DOMAIN zone[z].updates : zone[z].updates[i].st # "pending"
        /\ exit.cause = "zones" <=> (\E z \in Zones : ZoneFailed(z))
        /\ exit.cause = "zones" => exit.count = Cardinality({z \in Zones : ZoneFailed(z)})
        /\ io.saves = IF exit.cause = "zones" THEN 0 ELSE 1

\* of two zones the first failed and the second still ran its update
C6_Witness ==
    /\ pc = "exit"
    /\ exit.cause = "zones"
    /\ exit.count = 1
    /\ Len(config.zones) = 2
    /\ zone[1].res = "no_zones"
    /\ zone[2].res = "ok"
    /\ Len(zone[2].updates) = 1

\* configured record/family lookups of zone z that found no remote record
MissingRecords(z) ==
    LET rs == config.zones[z]
    IN Cardinality({i \in DOMAIN rs : IsSome(new.ipv4) /\ rs[i].name \notin DOMAIN zone[z].a})
       + Cardinality({i \in DOMAIN rs : /\ IsSome(new.ipv6_prefix)
                                        /\ IsSome(rs[i].suffix)
                                        /\ rs[i].name \notin DOMAIN zone[z].aaaa})

\* zone z resolved and listed its records, and update_zone has returned
Reconciled(z) == zone[z].pc = "done" /\ zone[z].res \in {"ok", "failures"} /\ zone[z].listed # <<>>

\* C7: for a zone that was resolved and indexed the error counter is the
\* number of lookups that found no record plus the number of failed updates,
\* and update_zone fails iff the counter is not zero.
C7_ZoneFailureCount ==
    \A z \in Zones :
        /\ Reconciled(z) =>
              /\ zone[z].errors = MissingRecords(z) + FailedUpdates(zone[z].updates)
              /\ zone[z].res = "failures" <=> zone[z].errors > 0
        /\ zone[z].res \in {"ok", "failures"} => zone[z].pc = "done"

\* a zone failed with one missing record and one failed update
C7_Witness ==
    \E z \in Zones :
        /\ Reconciled(z)
        /\ MissingRecords(z) = 1
        /\ FailedUpdates(zone[z].updates) = 1
        /\ zone[z].errors = 2

\* C8: when the provider returns two or more zones for the name, the zone
\* fails as ambiguous, no record listing and no update is sent for it, and the
\* history file is not written.
C8_AmbiguousZone ==
    \A z \in Zones :
        zone[z].matches > 1 =>
            /\ zone[z].pc = "done"
            /\ zone[z].res = "multiple_zones"
            /\ zone[z].listed = <<>>
            /\ zone[z].updates = <<>>
            /\ io.saves = 0

\* one zone was ambiguous while the other zone updated its record
C8_Witness ==
    /\ pc = "exit"
    /\ Len(config.zones) = 2
    /\ zone[1].matches = 2
    /\ zone[2].res = "ok"
    /\ Len(zone[2].updates) = 1

\* C9: a zone without records sends no request, counts no error and returns
\* success, so a run never fails on such a zone.
C9_EmptyZone ==
    /\ \A z \in Zones :
          (config.zones[z] = <<>> /\ zone[z].pc # "idle") =>
              /\ zone[z].pc = "done"
              /\ zone[z].res = "ok"
              /\ zone[z].errors = 0
              /\ Requests(z) = 0
    /\ exit.cause = "zones" => \E z \in Zones : config.zones[z] # <<>> /\ ZoneFailed(z)

\* History was saved in a run one of whose zones has no records
C9_Witness ==
    /\ exit.cause = "saved"
    /\ \E z \in Zones : config.zones[z] = <<>> /\ zone[z].pc = "done"

\* C10: the pagination loop stops at the first response that is absent or
\* terminal: after a response whose total_pages is not beyond the page it
\* answers (zero included) no further page is requested.
C10_PaginationStops ==
    \A z \in Zones :
        (zone[z].pc = "list" /\ zone[z].info.kind = "info") =>
            zone[z].info.total_pages >= zone[z].page


\* zone_record_map has returned its maps for zone z
Indexed(z) == zone[z].pc = "update" \/ Reconciled(z)

\* the names of the records of one type among those the provider returned
NamesSeen(z, type) == {r.name : r \in {x \in zone[z].seen : x.type = type}}

\* C11: pages are requested as 1, 2, 3, ... one at a time and never after a
\* response that is absent of page info or reports the requested page as the
\* last; the maps returned hold exactly the names of the A and of the AAAA
\* records seen, each with an id the provider returned for that name and type.
C11_RecordIndex ==
    \A z \in Zones :
        LET zs == zone[z]
        IN /\ \A i \in DOMAIN zs.listed : zs.listed[i] = i
           /\ zs.pc = "list" =>
                 /\ zs.page = Len(zs.listed)
                 /\ Len(zs.listed) > 1 =>
                       /\ zs.info.kind = "info"
                       /\ zs.info.total_pages # Len(zs.listed) - 1
           /\ Indexed(z) =>
                 /\ \/ zs.info.kind = "absent"
                    \/ zs.info.kind = "info" /\ zs.info.total_pages = Len(zs.listed)
                 /\ DOMAIN zs.a = NamesSeen(z, "A")
                 /\ DOMAIN zs.aaaa = NamesSeen(z, "AAAA")
                 /\ \A n \in DOMAIN zs.a : Rec(n, "A", zs.a[n]) \in zs.seen
                 /\ \A n \in DOMAIN zs.aaaa : Rec(n, "AAAA", zs.aaaa[n]) \in zs.seen

\* two pages were indexed: a TXT record was left out, the A record of r1 was
\* returned twice and the AAAA record of r1 is in its own map
C11_Witness ==
    \E z \in Zones :
        /\ Indexed(z)
        /\ zone[z].listed = <<1, 2>>
        /\ Rec("r1", "TXT", "t1") \in zone[z].seen
        /\ Rec("r1", "A", "a1") \in zone[z].seen
        /\ Rec("r1", "A", "a3") \in zone[z].seen
        /\ "r1" \in DOMAIN zone[z].aaaa


\* the configured records of zone z whose A lookup / AAAA lookup applies and
\* finds a remote record
PresentA(z) ==
    {i \in DOMAIN config.zones[z] :
        IsSome(new.ipv4) /\ config.zones[z][i].name \in DOMAIN zone[z].a}
PresentAAAA(z) ==
    {i \in DOMAIN config.zones[z] :
        /\ IsSome(new.ipv6_prefix)
        /\ IsSome(config.zones[z][i].suffix)
        /\ config.zones[z][i].name \in DOMAIN zone[z].aaaa}

\* the updates of zone z for one record name and type
UpdatesFor(z, name, type) ==
    {k \in DOMAIN zone[z].updates :
        zone[z].updates[k].name = name /\ zone[z].updates[k].type = type}

\* C12: every missing record adds one to the error counter and planning goes
\* on: each configured record found in the applicable map has its update,
\* whatever records before or after it are missing.
C12_MissingRecordContinues ==
    \A z \in Zones :
        Indexed(z) =>
            LET zs == zone[z]
                rs == config.zones[z]
            IN /\ \A i \in PresentA(z) :
                     \E k \in UpdatesFor(z, rs[i].name, "A") :
                         /\ zs.updates[k].id = zs.a[rs[i].name]
                         /\ zs.updates[k].content = Unwrap(new.ipv4)
               /\ \A i \in PresentAAAA(z) :
                     \E k \in UpdatesFor(z, rs[i].name, "AAAA") :
                         zs.updates[k].id = zs.aaaa[rs[i].name]
               /\ Len(zs.updates) = Cardinality(PresentA(z)) + Cardinality(PresentAAAA(z))
               /\ zs.pc = "update" => zs.errors = MissingRecords(z)
               /\ zs.pc = "done" =>
                     zs.errors = MissingRecords(z) + FailedUpdates(zs.updates)

\* the first record has no A record at the provider, the second one has
\* and its update was planned and sent
C12_Witness ==
    \E z \in Zones :
        /\ Indexed(z)
        /\ config.zones[z] = <<RecHost, RecPlain>>
        /\ IsSome(new.ipv4)
        /\ "r1" \notin DOMAIN zone[z].a
        /\ UpdatesFor(z, "r2", "A") # {}
        /\ MissingRecords(z) >= 1


\* the configured records of zone z without a suffix (eui64)
WithoutSuffix(z) == {i \in DOMAIN config.zones[z] : IsNone(config.zones[z][i].suffix)}

\* the AAAA updates of zone z
AAAAUpdates(z) == {k \in DOMAIN zone[z].updates : zone[z].updates[k].type = "AAAA"}

\* C13: a record without suffix gets no AAAA update and counts no missing
\* AAAA record, whatever the new prefix and whether or not the provider has
\* an AAAA record of its name.
C13_AAAAOptIn ==
    \A z \in Zones :
        Indexed(z) =>
            LET rs == config.zones[z]
                plain == {rs[i].name : i \in WithoutSuffix(z)}
                          \ {rs[i].name : i \in DOMAIN rs \ WithoutSuffix(z)}
                missingA == {i \in DOMAIN rs :
                                IsSome(new.ipv4) /\ rs[i].name \notin DOMAIN zone[z].a}
            IN /\ \A k \in AAAAUpdates(z) : zone[z].updates[k].name \notin plain
               /\ Cardinality(AAAAUpdates(z)) <= Cardinality(DOMAIN rs \ WithoutSuffix(z))
               /\ zone[z].errors
                     - (IF zone[z].pc = "done" THEN FailedUpdates(zone[z].updates) ELSE 0)
                     = Cardinality(missingA)
                       + Cardinality({i \in DOMAIN rs \ WithoutSuffix(z) :
                                         /\ IsSome(new.ipv6_prefix)
                                         /\ rs[i].name \notin DOMAIN zone[z].aaaa})

\* with a new prefix and an AAAA record of r2 at the provider, r2, which has
\* no suffix, got its A update only
C13_Witness ==
    \E z \in Zones :
        /\ Indexed(z)
        /\ IsSome(new.ipv6_prefix)
        /\ \E i \in WithoutSuffix(z) : config.zones[z][i].name = "r2"
        /\ "r2" \in DOMAIN zone[z].aaaa
        /\ UpdatesFor(z, "r2", "A") # {}
        /\ UpdatesFor(z, "r2", "AAAA") = {}


\* C14: the content of every AAAA update is the new prefix, cut to its upper
\* half, or-ed bit by bit with the suffix of a record of that name, whichever
\* bits the suffix sets.
C14_AAAAContent ==
    \A z \in Zones :
        \A k \in AAAAUpdates(z) :
            LET u == zone[z].updates[k]
                rs == config.zones[z]
                prefix == Ipv6And(Unwrap(new.ipv6_prefix), PREFIX_MASK)
            IN /\ IsSome(new.ipv6_prefix)
               /\ \E i \in DOMAIN rs \ WithoutSuffix(z) :
                     /\ rs[i].name = u.name
                     /\ u.content[1] = BitOr(prefix[1], Unwrap(rs[i].suffix)[1])
                     /\ u.content[2] = BitOr(prefix[2], Unwrap(rs[i].suffix)[2])

\* an AAAA update from a suffix with a bit in the upper half
C14_Witness ==
    \E z \in Zones :
        /\ config.zones[z] = <<RecOdd>>
        /\ new.ipv6_prefix = Some(<<2, 0>>)
        /\ \E k \in AAAAUpdates(z) : zone[z].updates[k].content = <<3, 2>>


Masked(o) == IsNone(o) \/ Unwrap(o)[2] = 0

\* C15: every prefix the Change Gate compares (observed and historical), every
\* prefix it passes on and every prefix in the History file has a zero lower
\* half, a prefix restored from the file included.
C15_PrefixMasked ==
    /\ Masked(observed.ipv6_prefix)
    /\ Masked(history.ipv6_prefix)
    /\ Masked(new.ipv6_prefix)
    /\ Parses(disk) => Masked(Parse(disk).ipv6_prefix)

\* a prefix saved by one run, restored by the next and compared with a
\* different observed prefix
C15_Witness ==
    /\ pc = "joining"
    /\ last.applied
    /\ IsSome(last.observed.ipv6_prefix)
    /\ history.ipv6_prefix = last.observed.ipv6_prefix
    /\ IsSome(observed.ipv6_prefix)
    /\ observed.ipv6_prefix # history.ipv6_prefix
    /\ new.ipv6_prefix = observed.ipv6_prefix


\* the file system carried out the last save
LastSaveWritten == io.steps # <<>> /\ io.steps[Len(io.steps)] = "ok"

\* C16: whatever the file held before, after a save that the file system
\* carried out the file holds the text of the saved History and nothing else,
\* and restore_history then succeeds and returns a value equal to it; this
\* holds for the second save over the first as well.
C16_RoundTrip ==
    LastSaveWritten =>
        /\ pc = "saved" => disk = FileOf(new)
        /\ pc = "restored" => history = new /\ Parse(disk) = new
        /\ pc = "exit" => exit.cause # "history_deserialize"

\* the all-zero addresses restored after the second save on the path
C16_Witness ==
    /\ pc = "restored"
    /\ io.saves = MaxSaves
    /\ LastSaveWritten
    /\ history = History(Some(0), Some(<<0, 0>>))


\* startup found no history file and went on to create one
Created == \E i \in DOMAIN io.steps : io.steps[i] = "create"

\* C17: when startup finds no history file, either the creation fails and the
\* run ends there with an error, or the run goes on with the empty History and
\* the file holds the text of the empty History until the run saves.
C17_MissingHistory ==
    (Created /\ pc # "start") =>
        \/ /\ pc = "exit"
           /\ exit = Exit(1, "history_create", 0)
           /\ \A z \in Zones : Requests(z) = 0
        \/ /\ exit.cause # "history_create"
           /\ history = HistoryDefault
           /\ io.saves = 0 => disk = FileOf(HistoryDefault)


\* C18: once the run has called save_history the file holds the whole History
\* that was loaded or the whole History handed to save_history, and the
\* restore_history of the run after a successful one does not fail on it.
C18_AtomicSave ==
    /\ io.saves > 0 =>
          \/ AsLoaded
          \/ disk = FileOf(History(new.ipv4, new.ipv6_prefix))
    /\ (last.applied /\ pc = "exit") => exit.cause # "history_deserialize"


\* the errors Config::from_args_os returns
StartupCauses ==
    {"config", "credential", "history_open", "history_deserialize", "history_create"}

\* C19 as stated: a run that ends on a fatal error, the error of the final
\* save_history included, has sent no request to the provider.
C19_FatalBeforeRemote ==
    (pc = "exit" /\ exit.cause \in StartupCauses \cup {"history_save"}) =>
        \A z \in Zones : Requests(z) = 0

\* C19 amended: an error of the configuration, the credential or the reading
\* or creation of the history file ends the run with code 1 before discovery
\* and before any request, and a run gets past startup only with the History
\* it read or with the file it created; the error of the final save_history
\* ends the run with code 1 after every zone has returned success.
C19_FatalErrors ==
    /\ (pc = "exit" /\ exit.cause \in StartupCauses) =>
          /\ exit.code = 1
          /\ ~io.discovered
          /\ io.saves = 0
          /\ \A z \in Zones : Requests(z) = 0
    /\ pc \in {"configured", "joining"} =>
          /\ disk.exists
          /\ Created \/ (Parses(disk) /\ Parse(disk) = history)
    /\ (pc = "exit" /\ exit.cause = "history_save") =>
          /\ exit.code = 1
          /\ io.saves = 1
          /\ \A z \in Zones : zone[z].pc = "done" /\ zone[z].res = "ok"

\* the final save_history has failed after an update was applied remotely
C19_Witness ==
    /\ pc = "exit"
    /\ exit.cause = "history_save"
    /\ \E z \in Zones : \E i \in DOMAIN zone[z].updates : zone[z].updates[i].st = "ok"


\* C20: the updates of one zone, which are in flight together, target
\* pairwise distinct record ids.
C20_DistinctIds ==
    \A z \in Zones :
        \A i, j \in DOMAIN zone[z].updates :
            i # j => zone[z].updates[i].id # zone[z].updates[j].id


\* the steps of startup taken so far are the first n of the three
TookSteps(n) ==
    /\ Len(io.steps) >= n
    /\ SubSeq(io.steps, 1, n) = SubSeq(<<"config", "credential", "history">>, 1, n)
    /\ n < 3 => Len(io.steps) = n

\* once startup has run: the first step that would fail gives the error, and
\* the steps taken end with it
C21_FirstFailure ==
    pc \in {"configured", "joining", "exit"} =>
        /\ ~io.env.config =>
              exit = Exit(1, "config", 0) /\ TookSteps(1)
        /\ (io.env.config /\ ~io.env.credential) =>
              exit = Exit(1, "credential", 0) /\ TookSteps(2)
        /\ (io.env.config /\ io.env.credential /\ ~io.env.history) =>
              /\ exit.code = 1
              /\ exit.cause \in {"history_open", "history_deserialize", "history_create"}
              /\ exit.cause = "history_create" <=> ~disk.exists
              /\ TookSteps(3)
        /\ (io.env.config /\ io.env.credential /\ io.env.history) =>
              exit.cause \notin StartupCauses /\ TookSteps(3)
        /\ Len(io.steps) < 3 => history = HistoryDefault

\* a startup that ends in an error leaves the history file as it found it
C21_FileUntouched == (pc = "start" /\ pc' = "exit") => disk' = disk

\* C21: startup reads the configuration, then the token, then restores the
\* History; the first of the three that fails is the error reported and no
\* later step is taken, so without the token the history file is neither read
\* nor created, and with the token a file that cannot be created is the error.
C21_StartupOrder == []C21_FirstFailure /\ [][C21_FileUntouched]_vars

\* the token is missing and the history file is absent and could not be
\* created: the error is the token's and there is still no file
C21_Witness ==
    /\ pc = "exit"
    /\ exit.cause = "credential"
    /\ ~io.env.history
    /\ ~disk.exists


\* C22: in a zone whose planning counted a missing record, every update
\* planned for the records that exist is sent; the zone reports its failure
\* only when all of them have completed, and the run, which was bound to fail
\* from the planning on, does not write the history file.
C22_PlanningErrorsStillUpdate ==
    \A z \in Zones :
        (Indexed(z) /\ MissingRecords(z) > 0) =>
            LET zs == zone[z]
            IN /\ Len(zs.updates) = Cardinality(PresentA(z)) + Cardinality(PresentAAAA(z))
               /\ \A i \in DOMAIN zs.updates : zs.updates[i].sent = 1
               /\ zs.pc = "update" => zs.res = "none"
               /\ zs.pc = "done" =>
                     /\ zs.res = "failures"
                     /\ \A i \in DOMAIN zs.updates : zs.updates[i].st \in {"ok", "err"}
               /\ io.saves = 0
               /\ AsLoaded
               /\ pc = "exit" => exit.code = 1 /\ exit.cause = "zones"

\* a run has failed on a zone with a missing record after changing another
\* record of that zone at the provider
C22_Witness ==
    /\ pc = "exit"
    /\ exit.cause = "zones"
    /\ \E z \in Zones :
          /\ Indexed(z)
          /\ MissingRecords(z) > 0
          /\ FailedUpdates(zone[z].updates) = 0
          /\ \E i \in DOMAIN zone[z].updates : zone[z].updates[i].st = "ok"


\* C23: the upper half of the content of every AAAA update is the upper half
\* of the new prefix, whatever the suffix.
C23_NetworkPart ==
    \A z \in Zones :
        \A k \in AAAAUpdates(z) :
            /\ IsSome(new.ipv6_prefix)
            /\ zone[z].updates[k].content[1] = Unwrap(new.ipv6_prefix)[1]

=============================================================================
